---- MODULE Spec2Model ----
(***************************************************************************)
(* module++ : the reference-counted plugin loader (classLoader), the       *)
(* per-library creator registry (factory) and the dynamic library handle   *)
(* (shared_library_unix), as a state machine of host threads calling the   *)
(* loader's public methods.                                                *)
(***************************************************************************)
EXTENDS Integers, FiniteSets, Sequences, TLC

\* ------------------------------------------------------------------ bounds

\* host threads sharing one classLoader
NThreads == 2
\* cap on the loadLibrary calls of one path that are returned-and-not-yet-unloaded or in flight
MaxRef == 2
\* cap on the libraryInfo structs of one path that are dropped without being deleted
MaxLeak == 1
\* cap on the instances one creator of a loaded registry makes
MaxInst == 2

Threads == 1..NThreads

\* ------------------------------------------------- the plugins on the disk

\* the paths the host passes to loadLibrary / unloadLibrary
Paths ==
    {"libA", "libB", "libNoBuild", "libInitThrows", "libMismatch", "libBuildFalse", "libMissing"}

\* the class names the host passes to getClass / hasClass
ClassNames == {"A", "B", "C", "NoSuchClass"}

\* the base class B of the host's classLoader<B>
HostBase == "module_base"

NoException == "none"

\* what the file behind a path is: whether dlopen finds it, the extern "C" symbols it
\* exports, how its callbacks behave, and what its buildFactory registers
Plugin(p) ==
    CASE p = "libA" ->
            [exists |-> TRUE,
             symbols |-> {"initializeLibrary", "buildFactory", "uninitializeLibrary"},
             initThrows |-> FALSE, build |-> "macro", base |-> HostBase,
             exports |-> [id \in {"A", "C"} |-> "basic"]]
      [] p = "libB" ->
            [exists |-> TRUE,
             symbols |-> {"buildFactory"},
             initThrows |-> FALSE, build |-> "macro", base |-> HostBase,
             exports |-> [id \in {"B", "C"} |-> "advance"]]
      [] p = "libNoBuild" ->
            [exists |-> TRUE,
             symbols |-> {"initializeLibrary", "uninitializeLibrary"},
             initThrows |-> FALSE, build |-> "macro", base |-> HostBase,
             exports |-> [id \in {"A"} |-> "basic"]]
      [] p = "libInitThrows" ->
            [exists |-> TRUE,
             symbols |-> {"initializeLibrary", "buildFactory"},
             initThrows |-> TRUE, build |-> "macro", base |-> HostBase,
             exports |-> [id \in {"A"} |-> "basic"]]
      [] p = "libMismatch" ->
            [exists |-> TRUE,
             symbols |-> {"buildFactory", "uninitializeLibrary"},
             initThrows |-> FALSE, build |-> "macro", base |-> "other_base",
             exports |-> [id \in {"A"} |-> "basic"]]
      [] p = "libBuildFalse" ->
            [exists |-> TRUE,
             symbols |-> {"initializeLibrary", "buildFactory", "uninitializeLibrary"},
             initThrows |-> FALSE, build |-> "returnsFalse", base |-> HostBase,
             exports |-> [id \in {"A"} |-> "basic"]]
      [] OTHER ->
            [exists |-> FALSE,
             symbols |-> {},
             initThrows |-> FALSE, build |-> "macro", base |-> HostBase,
             exports |-> [id \in {"A"} |-> "basic"]]

\* ------------------------------------------------------------------- state

VARIABLES
    map,        \* classLoader::_map : path -> libraryInfo
    mutex,      \* classLoader::mutex : 0 when free, else the thread holding it
    destroyed,  \* ~classLoader has run
    osRef,      \* the OS loader: path -> dlopen calls not yet matched by a dlclose
    leakedLi,   \* path -> libraryInfo structs dropped with an open handle and a registry
    leakedLib,  \* path -> sharedLibrary objects (closed) dropped without delete
    pc,         \* thread -> where it is in the method it called
    arg,        \* thread -> the path or class name it passed
    li,         \* thread -> the local libraryInfo of loadLibrary
    cre,        \* thread -> the creator getCreator returned
    creStale,   \* thread -> the library of cre was closed while the thread held cre
    exc,        \* thread -> the exception in flight
    ret,        \* thread -> the value the method returns
    outcome,    \* thread -> the branch the call took
    entryMap,   \* thread -> _map as loadLibrary or getCreator found it
    cands,      \* thread -> the creators registered under the name at lookup time
    held,       \* path -> loadLibrary calls that installed or re-referenced the record and
                \* returned, minus the unloadLibrary calls that returned since
    calls,      \* path -> OS opens and callback invocations on behalf of the record of the
                \* path that is being built, is installed or is being torn down
    heap,       \* the creators that EXPORT_CLASS allocated with new and nobody deleted
    deleteSet,  \* managed creator of a registry in the map -> its deleteSet
    created,    \* managed creator of a registry in the map, or creator the host made
                \* itself -> the instances its create() allocated
    _it,        \* thread -> Iterator::_it of the iterator the thread walks the loader with
    _pair       \* thread -> Iterator::_pair, as the last dereference filled it

vars ==
    <<map, mutex, destroyed, osRef, leakedLi, leakedLib, pc, arg, li, cre, creStale,
      exc, ret, outcome, entryMap, cands, held, calls, heap, deleteSet, created,
      _it, _pair>>

loaderVars == <<map, mutex, destroyed>>
osVars == <<osRef, leakedLi, leakedLib>>
localVars == <<li, cre, creStale, exc, ret, outcome, entryMap, cands>>
ghostVars == <<held, calls>>
heapVars == <<heap, deleteSet, created>>
iterVars == <<_it, _pair>>

\* ------------------------------------------- shared_library_unix / sharedLibrary

\* a null void* (handle == nullptr, or the NULL dlsym returns)
NoHandle == << >>

\* shared_library_unix::suffix
suffix == ".so"

\* path + suffix() as load() stores it
Suffixed(p) == <<p, suffix>>

\* new sharedLibrary() : path(""), handle(nullptr)
NewSharedLibrary == [alloc |-> TRUE, path |-> << >>, handle |-> NoHandle]

\* a sharedLibrary after delete
DeletedLibrary == [alloc |-> FALSE, path |-> << >>, handle |-> NoHandle]

\* dlopen(file, flags): the handle of the module, or null when the OS cannot load it
dlopen(file) == IF Plugin(file[1]).exists THEN file ELSE NoHandle

\* dlsym(handle, name): the address of the symbol, or null
dlsym(handle, name) ==
    IF name \in Plugin(handle[1]).symbols THEN <<handle[1], name>> ELSE NoHandle

\* a load that keeps a non-null handle when the OS loader failed
shared_library_load_staleHandle(lib, p, os) ==
    IF lib.handle # NoHandle
    THEN [threw |-> "libraryOverwriteException", lib |-> lib, os |-> os]
    ELSE LET h == dlopen(Suffixed(p))
         IN  IF h = NoHandle
             THEN [threw |-> "libraryLoadException",
                   lib |-> [lib EXCEPT !.path = Suffixed(p), !.handle = <<"invalid", suffix>>],
                   os |-> os]
             ELSE [threw |-> NoException,
                   lib |-> [lib EXCEPT !.path = Suffixed(p), !.handle = h],
                   os |-> [os EXCEPT ![h[1]] = @ + 1]]

\* a load without the check for a live handle: the old handle is overwritten
shared_library_load_overwrite(lib, p, os) ==
    LET h == dlopen(Suffixed(p))
    IN  IF h = NoHandle
        THEN [threw |-> "libraryLoadException",
              lib |-> [lib EXCEPT !.path = Suffixed(p), !.handle = NoHandle],
              os |-> os]
        ELSE [threw |-> NoException,
              lib |-> [lib EXCEPT !.path = Suffixed(p), !.handle = h],
              os |-> [os EXCEPT ![h[1]] = @ + 1]]

\* shared_library_unix::load(path): the exception thrown, the object and the OS afterwards
shared_library_load(lib, p, os) ==
    IF lib.handle # NoHandle
    THEN [threw |-> "libraryOverwriteException", lib |-> lib, os |-> os]
    ELSE LET h == dlopen(Suffixed(p))
         IN  IF h = NoHandle
             THEN [threw |-> "libraryLoadException",
                   lib |-> [lib EXCEPT !.path = Suffixed(p), !.handle = NoHandle],
                   os |-> os]
             ELSE [threw |-> NoException,
                   lib |-> [lib EXCEPT !.path = Suffixed(p), !.handle = h],
                   os |-> [os EXCEPT ![h[1]] = @ + 1]]

\* unload() that calls dlclose and keeps the handle
shared_library_unload_keepsHandle(lib, os) ==
    IF lib.handle # NoHandle
    THEN [lib |-> lib, os |-> [os EXCEPT ![lib.handle[1]] = @ - 1]]
    ELSE [lib |-> lib, os |-> os]

\* unload() that forgets the handle without dlclose
shared_library_unload_noClose(lib, os) ==
    [lib |-> [lib EXCEPT !.handle = NoHandle], os |-> os]

\* shared_library_unix::unload(): dlclose when open, nothing when closed
shared_library_unload(lib, os) ==
    IF lib.handle # NoHandle
    THEN [lib |-> [lib EXCEPT !.handle = NoHandle],
          os |-> [os EXCEPT ![lib.handle[1]] = @ - 1]]
    ELSE [lib |-> lib, os |-> os]

\* a destructor that does not call unload()
shared_library_delete_noUnload(lib, os) == [lib |-> DeletedLibrary, os |-> os]

\* delete pLibrary: ~shared_library_unix calls unload(), then the object is gone
shared_library_delete(lib, os) ==
    [lib |-> DeletedLibrary, os |-> shared_library_unload(lib, os).os]

\* a findSymbol that treats a symbol the module lacks as an error
findSymbol_throwsOnMissing(lib, name) ==
    IF lib.handle # NoHandle
    THEN IF dlsym(lib.handle, name) = NoHandle
         THEN [threw |-> "librarySymbolMissingException", result |-> NoHandle]
         ELSE [threw |-> NoException, result |-> dlsym(lib.handle, name)]
    ELSE [threw |-> "libraryAccessException", result |-> NoHandle]

\* shared_library_unix::findSymbol(name)
findSymbol(lib, name) ==
    IF lib.handle # NoHandle
    THEN [threw |-> NoException, result |-> dlsym(lib.handle, name)]
    ELSE [threw |-> "libraryAccessException", result |-> NoHandle]

\* sharedLibraryBase::hasSymbol(name): findSymbol(name) != NULL, or findSymbol's exception
hasSymbol(lib, name) ==
    LET r == findSymbol(lib, name)
    IN  [threw |-> r.threw, result |-> r.threw = NoException /\ r.result # NoHandle]

\* shared_library_unix::isLoaded
isLoaded(lib) == lib.handle # NoHandle

\* ---------------------------------------------------------------- factory

\* new Factory() of classLoader<base>: an empty _factoryMap
NewFactory(base) == [alloc |-> TRUE, type |-> base, fmap |-> << >>]

\* a Factory after delete
DeletedFactory == [alloc |-> FALSE, type |-> "", fmap |-> << >>]

\* factory::typeName: typeid(factory<std::string, base>).name()
typeName(f) == <<"factory", "std::string", f.type>>

\* new factoryCreatorBasic<B, C>() / new factoryCreatorAdvance<B, C>() of library p
NewCreator(p, id, policy) == [null |-> FALSE, lib |-> p, id |-> id, policy |-> policy]

\* a NULL creator pointer
NullCreator == [null |-> TRUE, lib |-> "", id |-> "", policy |-> ""]

\* delete pFactory: ~factory() = default destroys the map of pointers, not the creators
factory_delete(f) == DeletedFactory

\* the creators a registry points to
Creators(f) == {f.fmap[id] : id \in DOMAIN f.fmap}

\* the factoryCreatorAdvance objects among the creators S (the ones with a deleteSet)
Managed(S) == {c \in S : c.policy = "advance"}

\* an insert that keeps the creator already registered under the id
factory_insert_keepsFirst(f, id, c) ==
    IF id \in DOMAIN f.fmap THEN f ELSE [f EXCEPT !.fmap = (id :> c) @@ @]

\* factory::insert : _factoryMap[id] = c
factory_insert(f, id, c) == [f EXCEPT !.fmap = (id :> c) @@ @]

\* factory::find(className) != end()
factory_has(f, id) == id \in DOMAIN f.fmap

\* factory::size
factory_size(f) == Cardinality(DOMAIN f.fmap)

\* a create that indexes the map without looking first: operator[] adds an entry
factory_create_indexes(f, id) ==
    IF id \in DOMAIN f.fmap
    THEN [threw |-> NoException, fac |-> f, creator |-> f.fmap[id]]
    ELSE [threw |-> "factoryException", creator |-> NullCreator,
          fac |-> [f EXCEPT !.fmap = (id :> NullCreator) @@ @]]

\* factory::create(id) up to the call of the creator: the exception thrown, the registry
\* afterwards and the creator whose create() is called
factory_create(f, id) ==
    IF id \in DOMAIN f.fmap
    THEN [threw |-> NoException, fac |-> f, creator |-> f.fmap[id]]
    ELSE [threw |-> "factoryException", fac |-> f, creator |-> NullCreator]

\* a find that lands on another entry of the map
factory_at_otherEntry(f, id) ==
    f.fmap[CHOOSE x \in DOMAIN f.fmap : x # id \/ DOMAIN f.fmap = {id}]

\* *factory::find(className)
factory_at(f, id) == f.fmap[id]

\* the EXPORT_CLASS lines between BEGIN_MODULE_FACTORY and END_MODULE_FACTORY
RECURSIVE ExportClasses(_, _, _)
ExportClasses(p, ids, f) ==
    IF ids = {} THEN f
    ELSE LET id == CHOOSE x \in ids : TRUE
         IN  ExportClasses(p, ids \ {id},
                           factory_insert(f, id, NewCreator(p, id, Plugin(p).exports[id])))

\* a buildFactory that casts the registry without comparing the type names
buildFactory_unchecked(p, f) ==
    IF Plugin(p).build = "macro"
    THEN [threw |-> NoException, result |-> TRUE,
          fac |-> ExportClasses(p, DOMAIN Plugin(p).exports, f)]
    ELSE [threw |-> NoException, result |-> FALSE, fac |-> f]

\* the plugin's buildFactory(modFactoryBase): the macro-generated one compares the
\* type names, a hand-written one may report failure by its return value
buildFactory(p, f) ==
    IF Plugin(p).build = "macro"
    THEN IF <<"factory", "std::string", Plugin(p).base>> = typeName(f)
         THEN [threw |-> NoException, result |-> TRUE,
               fac |-> ExportClasses(p, DOMAIN Plugin(p).exports, f)]
         ELSE [threw |-> "typeMismatchException", result |-> FALSE, fac |-> f]
    ELSE [threw |-> NoException, result |-> FALSE, fac |-> f]

\* ------------------------------------------------------ classLoader helpers

\* a libraryInfo local that holds nothing (before new, after delete or after the copy into _map)
NoLi == [pLibrary |-> DeletedLibrary, pFactory |-> DeletedFactory, refCount |-> 0]

NoCalls == [open |-> 0, init |-> 0, build |-> 0, uninit |-> 0, installed |-> FALSE]

\* the value a method hands back
VoidRet == [kind |-> "void", b |-> FALSE, concrete |-> << >>, n |-> 0]
BoolRet(b) == [kind |-> "bool", b |-> b, concrete |-> << >>, n |-> 0]
GarbageRet == [kind |-> "undefined", b |-> FALSE, concrete |-> << >>, n |-> 0]

\* the void* findSymbol hands back
SymbolRet(addr) == [kind |-> "symbol", b |-> FALSE, concrete |-> addr, n |-> 0]

\* new C seen through B*: the n-th object of concrete class c.id of library c.lib
InstanceRet(c, n) == [kind |-> "instance", b |-> FALSE, concrete |-> <<c.lib, c.id>>, n |-> n]

\* std::lock_guard<std::mutex> lock(mutex) can be taken
LockFree(m) == m = 0

\* the increment of the else branch left out
IncRef_forgotten(n) == n

\* ++it->second.refCount
IncRef(n) == n + 1

\* --it->second.refCount
DecRef(n) == n - 1

\* a test that misses zero: the record stays in the map with no holder
ReachedZero_belowZero(n) == n < 0

\* the test off by one: the library is torn down while one holder remains
ReachedZero_offByOne(n) == n <= 1

\* (--it->second.refCount == 0), given the decremented count
ReachedZero(n) == n = 0

\* the orders in which an unordered_map may hand out the keys in S
Orders(S) ==
    {s \in [1..Cardinality(S) -> S] : \A i, j \in 1..Cardinality(S) : i # j => s[i] # s[j]}

\* a loop that gives up after the first library
getCreatorLoop_firstOnly(m, order, i, className) ==
    IF i > Len(order) THEN NullCreator
    ELSE IF factory_has(m[order[i]].pFactory, className)
         THEN factory_at(m[order[i]].pFactory, className)
         ELSE NullCreator

\* the loop of getCreator over _map in iteration order `order`: the first match, or NULL
RECURSIVE getCreatorLoop(_, _, _, _)
getCreatorLoop(m, order, i, className) ==
    IF i > Len(order) THEN NullCreator
    ELSE LET pFactory == m[order[i]].pFactory
         IN  IF factory_has(pFactory, className)
             THEN factory_at(pFactory, className)
             ELSE getCreatorLoop(m, order, i + 1, className)

\* classLoader::getFactory(path) != NULL
getFactoryNotNull(m, p) == p \in DOMAIN m

\* the threads that are inside loadLibrary(p)
LoadPcs == {"ll_lock", "ll_find", "ll_open", "ll_init", "ll_build", "ll_catch", "ll_exit"}
InFlightLoads(p) == Cardinality({t \in Threads : pc[t] \in LoadPcs /\ arg[t] = p})

\* Iterator(_map.end()), and an iterator whose node pointer is no node of the map
End == "end"
Wild == "wild"

\* Iterator::_it: the node it points at, with the nodes the walk has been at and the
\* keys the map had when begin() was called
Iterator(n, seen, keys) == [node |-> n, seen |-> seen, atBegin |-> keys]
NoIterator == Iterator(End, {}, {})

\* Iterator::Pair: std::pair<std::string, const Factory*>
Pair(first, second) == [first |-> first, second |-> second]
NoPair == Pair("", DeletedFactory)
GarbagePair == Pair("?", DeletedFactory)

\* what a thread's locals are between calls
ClearLocals(t) ==
    /\ li' = [li EXCEPT ![t] = NoLi]
    /\ cre' = [cre EXCEPT ![t] = NullCreator]
    /\ creStale' = [creStale EXCEPT ![t] = FALSE]
    /\ exc' = [exc EXCEPT ![t] = NoException]
    /\ ret' = [ret EXCEPT ![t] = VoidRet]
    /\ outcome' = [outcome EXCEPT ![t] = "none"]
    /\ entryMap' = [entryMap EXCEPT ![t] = << >>]
    /\ cands' = [cands EXCEPT ![t] = {}]

\* -------------------------------------------------------------------- Init

Init ==
    /\ map = << >>
    /\ mutex = 0
    /\ destroyed = FALSE
    /\ osRef = [p \in Paths |-> 0]
    /\ leakedLi = [p \in Paths |-> 0]
    /\ leakedLib = [p \in Paths |-> 0]
    /\ pc = [t \in Threads |-> "idle"]
    /\ arg = [t \in Threads |-> ""]
    /\ li = [t \in Threads |-> NoLi]
    /\ cre = [t \in Threads |-> NullCreator]
    /\ creStale = [t \in Threads |-> FALSE]
    /\ exc = [t \in Threads |-> NoException]
    /\ ret = [t \in Threads |-> VoidRet]
    /\ outcome = [t \in Threads |-> "none"]
    /\ entryMap = [t \in Threads |-> << >>]
    /\ cands = [t \in Threads |-> {}]
    /\ held = [p \in Paths |-> 0]
    /\ calls = [p \in Paths |-> NoCalls]
    /\ heap = {}
    /\ deleteSet = << >>
    /\ created = << >>
    /\ _it = [t \in Threads |-> NoIterator]
    /\ _pair = [t \in Threads |-> NoPair]

\* ---------------------------------------------------------------- the calls

Goto(t, label) == pc' = [pc EXCEPT ![t] = label]

\* _map[path] = li
MapPut(m, p, v) == [q \in DOMAIN m \cup {p} |-> IF q = p THEN v ELSE m[q]]

\* _map.erase(it)
MapErase(m, p) == [q \in DOMAIN m \ {p} |-> m[q]]

\* the per-creator state with the creators in S set to v / without the creators in S
FnPut(fn, S, v) == [c \in DOMAIN fn \cup S |-> IF c \in S THEN v ELSE fn[c]]
FnDrop(fn, S) == [c \in DOMAIN fn \ S |-> fn[c]]

\* a host thread calls loader.loadLibrary(p)
Call_loadLibrary(t, p) ==
    /\ ~destroyed
    /\ pc[t] = "idle"
    /\ held[p] + InFlightLoads(p) < MaxRef
    /\ leakedLi[p] + leakedLib[p] < MaxLeak
    /\ Goto(t, "ll_lock")
    /\ arg' = [arg EXCEPT ![t] = p]
    /\ UNCHANGED <<loaderVars, osVars, heapVars, localVars, ghostVars>>
    /\ UNCHANGED iterVars

\* a host thread calls loader.unloadLibrary(p)
Call_unloadLibrary(t, p) ==
    /\ ~destroyed
    /\ pc[t] = "idle"
    /\ Goto(t, "ul_lock")
    /\ arg' = [arg EXCEPT ![t] = p]
    /\ UNCHANGED <<loaderVars, osVars, heapVars, localVars, ghostVars>>
    /\ UNCHANGED iterVars

\* the threads inside getClass that have not yet run new C
PendingCreates == Cardinality({t \in Threads : pc[t] \in {"gc_lock", "gc_search", "gc_create"}})

\* a host thread calls loader.getClass(n)
Call_getClass(t, n) ==
    /\ ~destroyed
    /\ pc[t] = "idle"
    /\ \A c \in DOMAIN created : Cardinality(created[c]) + PendingCreates < MaxInst
    /\ Goto(t, "gc_lock")
    /\ arg' = [arg EXCEPT ![t] = n]
    /\ UNCHANGED <<loaderVars, osVars, heapVars, localVars, ghostVars>>
    /\ UNCHANGED iterVars

\* a host thread calls loader.hasClass(n)
Call_hasClass(t, n) ==
    /\ ~destroyed
    /\ pc[t] = "idle"
    /\ Goto(t, "hc_lock")
    /\ arg' = [arg EXCEPT ![t] = n]
    /\ UNCHANGED <<loaderVars, osVars, heapVars, localVars, ghostVars>>
    /\ UNCHANGED iterVars

\* a host thread calls loader.isLibraryLoaded(p)
Call_isLibraryLoaded(t, p) ==
    /\ ~destroyed
    /\ pc[t] = "idle"
    /\ Goto(t, "il_lock")
    /\ arg' = [arg EXCEPT ![t] = p]
    /\ UNCHANGED <<loaderVars, osVars, heapVars, localVars, ghostVars>>
    /\ UNCHANGED iterVars

\* ------------------------------------------------- classLoader::loadLibrary

\* loadLibrary entered without taking the loader's mutex
ll_lock_unguarded(t) ==
    /\ pc[t] = "ll_lock"
    /\ Goto(t, "ll_find")
    /\ UNCHANGED <<loaderVars, osVars, heapVars, arg, localVars, ghostVars>>
    /\ UNCHANGED iterVars

\* std::lock_guard<std::mutex> lock(mutex)
ll_lock(t) ==
    /\ pc[t] = "ll_lock"
    /\ LockFree(mutex)
    /\ mutex' = t
    /\ Goto(t, "ll_find")
    /\ UNCHANGED <<map, destroyed, osVars, heapVars, arg, localVars, ghostVars>>
    /\ UNCHANGED iterVars

\* a re-load that runs initializeLibrary again before it counts the reference
ll_find_reinit(t) ==
    /\ pc[t] = "ll_find"
    /\ entryMap' = [entryMap EXCEPT ![t] = map]
    /\ IF arg[t] \in DOMAIN map
       THEN /\ map' = [map EXCEPT ![arg[t]].refCount = IncRef(@)]
            /\ outcome' = [outcome EXCEPT ![t] = "increment"]
            /\ Goto(t, "ll_exit")
            /\ calls' = [calls EXCEPT ![arg[t]].init = @ + 1]
       ELSE /\ Goto(t, "ll_open")
            /\ calls' = [calls EXCEPT ![arg[t]] = NoCalls]
            /\ UNCHANGED <<map, outcome>>
    /\ UNCHANGED <<mutex, destroyed, osVars, heapVars, arg, li, cre, creStale, exc, ret, cands, held>>
    /\ UNCHANGED iterVars

\* it = _map.find(path); the else branch: ++it->second.refCount
ll_find(t) ==
    /\ pc[t] = "ll_find"
    /\ entryMap' = [entryMap EXCEPT ![t] = map]
    /\ IF arg[t] \in DOMAIN map
       THEN /\ map' = [map EXCEPT ![arg[t]].refCount = IncRef(@)]
            /\ outcome' = [outcome EXCEPT ![t] = "increment"]
            /\ Goto(t, "ll_exit")
            /\ UNCHANGED calls
       ELSE /\ Goto(t, "ll_open")
            /\ calls' = [calls EXCEPT ![arg[t]] = NoCalls]
            /\ UNCHANGED <<map, outcome>>
    /\ UNCHANGED <<mutex, destroyed, osVars, heapVars, arg, li, cre, creStale, exc, ret, cands, held>>
    /\ UNCHANGED iterVars

\* li.pLibrary = new sharedLibrary(); li.pLibrary->load(path);
\* li.pFactory = new Factory(); li.refCount = 1;   (load is outside the try block)
ll_open(t) ==
    /\ pc[t] = "ll_open"
    /\ LET r == shared_library_load(NewSharedLibrary, arg[t], osRef)
       IN  IF r.threw # NoException
           THEN /\ exc' = [exc EXCEPT ![t] = r.threw]
                /\ outcome' = [outcome EXCEPT ![t] = "openFailed"]
                /\ leakedLib' = [leakedLib EXCEPT ![arg[t]] = @ + 1]
                /\ Goto(t, "ll_exit")
                /\ UNCHANGED <<osRef, li, calls>>
           ELSE /\ osRef' = r.os
                /\ li' = [li EXCEPT ![t] =
                            [pLibrary |-> r.lib, pFactory |-> NewFactory(HostBase),
                             refCount |-> 1]]
                /\ calls' = [calls EXCEPT ![arg[t]].open = @ + 1]
                /\ Goto(t, "ll_init")
                /\ UNCHANGED <<exc, outcome, leakedLib>>
    /\ UNCHANGED <<loaderVars, leakedLi, arg, cre, creStale, ret, entryMap, cands, held,
                   heapVars>>
    /\ UNCHANGED iterVars

\* if (hasSymbol("initializeLibrary")) initializeLibrary();
ll_init(t) ==
    /\ pc[t] = "ll_init"
    /\ IF hasSymbol(li[t].pLibrary, "initializeLibrary").result
       THEN /\ calls' = [calls EXCEPT ![arg[t]].init = @ + 1]
            /\ IF Plugin(arg[t]).initThrows
               THEN /\ exc' = [exc EXCEPT ![t] = "pluginException"]
                    /\ outcome' = [outcome EXCEPT ![t] = "initThrew"]
                    /\ Goto(t, "ll_catch")
               ELSE /\ Goto(t, "ll_build")
                    /\ UNCHANGED <<exc, outcome>>
       ELSE /\ Goto(t, "ll_build")
            /\ UNCHANGED <<calls, exc, outcome>>
    /\ UNCHANGED <<loaderVars, osVars, heapVars, arg, li, cre, creStale, ret, entryMap, cands, held>>
    /\ UNCHANGED iterVars

\* if (hasSymbol("buildFactory")) { if (buildManifest(li.pFactory)) _map[path] = li; }
\* else throw librarySymbolMissingException();
ll_build(t) ==
    /\ pc[t] = "ll_build"
    /\ IF hasSymbol(li[t].pLibrary, "buildFactory").result
       THEN LET r == buildFactory(arg[t], li[t].pFactory)
            IN  /\ IF r.threw # NoException
                   THEN /\ exc' = [exc EXCEPT ![t] = r.threw]
                        /\ outcome' = [outcome EXCEPT ![t] = "buildThrew"]
                        /\ li' = [li EXCEPT ![t].pFactory = r.fac]
                        /\ calls' = [calls EXCEPT ![arg[t]].build = @ + 1]
                        /\ Goto(t, "ll_catch")
                        /\ UNCHANGED <<map, leakedLi, heapVars>>
                   ELSE IF r.result
                   THEN /\ map' = MapPut(map, arg[t], [li[t] EXCEPT !.pFactory = r.fac])
                        /\ li' = [li EXCEPT ![t] = NoLi]
                        /\ outcome' = [outcome EXCEPT ![t] = "installed"]
                        /\ calls' = [calls EXCEPT ![arg[t]].build = @ + 1,
                                                  ![arg[t]].installed = TRUE]
                        /\ heap' = heap \cup Creators(r.fac)
                        /\ deleteSet' = FnPut(deleteSet, Managed(Creators(r.fac)), {})
                        /\ created' = FnPut(created, Managed(Creators(r.fac)), {})
                        /\ Goto(t, "ll_exit")
                        /\ UNCHANGED <<exc, leakedLi>>
                   ELSE /\ leakedLi' = [leakedLi EXCEPT ![arg[t]] = @ + 1]
                        /\ li' = [li EXCEPT ![t] = NoLi]
                        /\ outcome' = [outcome EXCEPT ![t] = "buildFalse"]
                        /\ calls' = [calls EXCEPT ![arg[t]].build = @ + 1]
                        /\ heap' = heap \cup Creators(r.fac)
                        /\ Goto(t, "ll_exit")
                        /\ UNCHANGED <<map, exc, deleteSet, created>>
       ELSE /\ exc' = [exc EXCEPT ![t] = "librarySymbolMissingException"]
            /\ outcome' = [outcome EXCEPT ![t] = "noBuild"]
            /\ Goto(t, "ll_catch")
            /\ UNCHANGED <<map, li, leakedLi, calls, heapVars>>
    /\ UNCHANGED <<mutex, destroyed, osRef, leakedLib, arg, cre, creStale, ret, entryMap,
                   cands, held>>
    /\ UNCHANGED iterVars

\* catch (...) { delete li.pFactory; delete li.pLibrary; throw; }
ll_catch(t) ==
    /\ pc[t] = "ll_catch"
    /\ osRef' = shared_library_delete(li[t].pLibrary, osRef).os
    /\ li' = [li EXCEPT ![t] = NoLi]
    /\ Goto(t, "ll_exit")
    /\ UNCHANGED <<loaderVars, leakedLi, leakedLib, arg, cre, creStale, exc, ret, outcome,
                   entryMap, cands, ghostVars, heapVars>>
    /\ UNCHANGED iterVars

\* the lock_guard goes out of scope; the call returns or the exception reaches the caller
ll_exit(t) ==
    /\ pc[t] = "ll_exit"
    /\ mutex' = 0
    /\ held' = IF outcome[t] \in {"installed", "increment"}
               THEN [held EXCEPT ![arg[t]] = @ + 1]
               ELSE held
    /\ calls' = IF outcome[t] \in {"installed", "increment"}
                THEN calls
                ELSE [calls EXCEPT ![arg[t]] = NoCalls]
    /\ Goto(t, "idle")
    /\ arg' = [arg EXCEPT ![t] = ""]
    /\ ClearLocals(t)
    /\ UNCHANGED <<map, destroyed, osVars, heapVars>>
    /\ UNCHANGED iterVars

\* ----------------------------------------------- classLoader::unloadLibrary

\* std::lock_guard<std::mutex> lock(mutex)
ul_lock(t) ==
    /\ pc[t] = "ul_lock"
    /\ LockFree(mutex)
    /\ mutex' = t
    /\ Goto(t, "ul_find")
    /\ UNCHANGED <<map, destroyed, osVars, heapVars, arg, localVars, ghostVars>>
    /\ UNCHANGED iterVars

\* an unload that treats an unknown path as an error
ul_find_throwsOnAbsent(t) ==
    /\ pc[t] = "ul_find"
    /\ IF arg[t] \in DOMAIN map
       THEN /\ map' = [map EXCEPT ![arg[t]].refCount = DecRef(@)]
            /\ IF ReachedZero(DecRef(map[arg[t]].refCount))
               THEN /\ outcome' = [outcome EXCEPT ![t] = "released"]
                    /\ Goto(t, "ul_uninit")
               ELSE /\ outcome' = [outcome EXCEPT ![t] = "decrement"]
                    /\ Goto(t, "ul_exit")
            /\ UNCHANGED exc
       ELSE /\ outcome' = [outcome EXCEPT ![t] = "absent"]
            /\ exc' = [exc EXCEPT ![t] = "libraryAccessException"]
            /\ Goto(t, "ul_exit")
            /\ UNCHANGED map
    /\ UNCHANGED <<mutex, destroyed, osVars, heapVars, arg, li, cre, creStale, ret, entryMap,
                   cands, ghostVars>>
    /\ UNCHANGED iterVars

\* it = _map.find(path); if (it != _map.end()) { if (--it->second.refCount == 0) ...
ul_find(t) ==
    /\ pc[t] = "ul_find"
    /\ IF arg[t] \in DOMAIN map
       THEN /\ map' = [map EXCEPT ![arg[t]].refCount = DecRef(@)]
            /\ IF ReachedZero(DecRef(map[arg[t]].refCount))
               THEN /\ outcome' = [outcome EXCEPT ![t] = "released"]
                    /\ Goto(t, "ul_uninit")
               ELSE /\ outcome' = [outcome EXCEPT ![t] = "decrement"]
                    /\ Goto(t, "ul_exit")
       ELSE /\ outcome' = [outcome EXCEPT ![t] = "absent"]
            /\ Goto(t, "ul_exit")
            /\ UNCHANGED map
    /\ UNCHANGED <<mutex, destroyed, osVars, heapVars, arg, li, cre, creStale, exc, ret, entryMap,
                   cands, ghostVars>>
    /\ UNCHANGED iterVars

\* the registry deleted before the teardown callback is looked up and called
ul_uninit_afterDelete(t) ==
    /\ pc[t] = "ul_uninit"
    /\ map' = [map EXCEPT ![arg[t]].pFactory = DeletedFactory]
    /\ IF hasSymbol(map[arg[t]].pLibrary, "uninitializeLibrary").result
       THEN calls' = [calls EXCEPT ![arg[t]].uninit = @ + 1]
       ELSE UNCHANGED calls
    /\ Goto(t, "ul_delfactory")
    /\ UNCHANGED <<mutex, destroyed, osVars, heapVars, arg, localVars, held>>
    /\ UNCHANGED iterVars

\* if (hasSymbol("uninitializeLibrary")) uninitializeLibrary();
ul_uninit(t) ==
    /\ pc[t] = "ul_uninit"
    /\ IF hasSymbol(map[arg[t]].pLibrary, "uninitializeLibrary").result
       THEN calls' = [calls EXCEPT ![arg[t]].uninit = @ + 1]
       ELSE UNCHANGED calls
    /\ Goto(t, "ul_delfactory")
    /\ UNCHANGED <<loaderVars, osVars, heapVars, arg, localVars, held>>
    /\ UNCHANGED iterVars

\* delete it->second.pFactory;
ul_delfactory(t) ==
    /\ pc[t] = "ul_delfactory"
    /\ map' = [map EXCEPT ![arg[t]].pFactory = factory_delete(@)]
    /\ deleteSet' = FnDrop(deleteSet, Creators(map[arg[t]].pFactory))
    /\ created' = FnDrop(created, Creators(map[arg[t]].pFactory))
    /\ Goto(t, "ul_unload")
    /\ UNCHANGED <<mutex, destroyed, osVars, heap, arg, localVars, ghostVars>>
    /\ UNCHANGED iterVars

\* it->second.pLibrary->unload();
ul_unload(t) ==
    /\ pc[t] = "ul_unload"
    /\ LET r == shared_library_unload(map[arg[t]].pLibrary, osRef)
       IN  /\ map' = [map EXCEPT ![arg[t]].pLibrary = r.lib]
           /\ osRef' = r.os
           /\ creStale' = [u \in Threads |->
                             IF /\ pc[u] = "gc_create"
                                /\ ~cre[u].null
                                /\ cre[u].lib = arg[t]
                                /\ r.os[arg[t]] = 0
                             THEN TRUE
                             ELSE creStale[u]]
    /\ Goto(t, "ul_erase")
    /\ UNCHANGED <<mutex, destroyed, leakedLi, leakedLib, arg, li, cre, exc, ret, outcome,
                   entryMap, cands, ghostVars, heapVars>>
    /\ UNCHANGED iterVars

\* delete it->second.pLibrary; _map.erase(it);
ul_erase(t) ==
    /\ pc[t] = "ul_erase"
    /\ osRef' = shared_library_delete(map[arg[t]].pLibrary, osRef).os
    /\ map' = MapErase(map, arg[t])
    /\ Goto(t, "ul_exit")
    /\ UNCHANGED <<mutex, destroyed, leakedLi, leakedLib, arg, localVars, ghostVars,
                   heapVars>>
    /\ UNCHANGED iterVars

\* the lock_guard goes out of scope and the call returns
ul_exit(t) ==
    /\ pc[t] = "ul_exit"
    /\ mutex' = 0
    /\ held' = [held EXCEPT ![arg[t]] = IF @ > 0 THEN @ - 1 ELSE 0]
    /\ calls' = IF outcome[t] = "released"
                THEN [calls EXCEPT ![arg[t]] = NoCalls]
                ELSE calls
    /\ Goto(t, "idle")
    /\ arg' = [arg EXCEPT ![t] = ""]
    /\ ClearLocals(t)
    /\ UNCHANGED <<map, destroyed, osVars, heapVars>>
    /\ UNCHANGED iterVars

\* --------------------------------- classLoader::getClass / hasClass / getCreator

\* the creators registered under className in the registries of the loaded libraries
RegisteredCreators(m, className) ==
    {m[p].pFactory.fmap[className] :
        p \in {q \in DOMAIN m : className \in DOMAIN m[q].pFactory.fmap}}

\* getCreator: std::lock_guard<std::mutex> lock(mutex)
gc_lock(t) ==
    /\ pc[t] = "gc_lock"
    /\ LockFree(mutex)
    /\ mutex' = t
    /\ Goto(t, "gc_search")
    /\ UNCHANGED <<map, destroyed, osVars, heapVars, arg, localVars, ghostVars>>
    /\ UNCHANGED iterVars

\* getCreator: the loop over _map, in the order the unordered_map iterates; the lock is
\* released when getCreator returns
gc_search(t) ==
    /\ pc[t] = "gc_search"
    /\ \E order \in Orders(DOMAIN map) :
           cre' = [cre EXCEPT ![t] = getCreatorLoop(map, order, 1, arg[t])]
    /\ cands' = [cands EXCEPT ![t] = RegisteredCreators(map, arg[t])]
    /\ entryMap' = [entryMap EXCEPT ![t] = map]
    /\ mutex' = 0
    /\ Goto(t, "gc_create")
    /\ UNCHANGED <<map, destroyed, osVars, heapVars, arg, li, creStale, exc, ret, outcome,
                   ghostVars>>
    /\ UNCHANGED iterVars

\* the number new C gives the next object of creator c (0 for a creator whose registry
\* is gone, which the model tracks no further)
NextInstance(c) == IF c \in DOMAIN created THEN Cardinality(created[c]) + 1 ELSE 0

\* getClass: if (cre == NULL) throw libraryCreateException(); else return cre->create();
\* create() begins with new C. The creator's code lives in the library: calling it
\* after the library was closed is undefined behaviour, which may give an instance,
\* give anything else, or jump into memory that is no longer mapped, after which the
\* call never returns ("gc_fault")
gc_create(t) ==
    /\ pc[t] = "gc_create"
    /\ IF cre[t].null
       THEN /\ exc' = [exc EXCEPT ![t] = "libraryCreateException"]
            /\ Goto(t, "gc_exit")
            /\ UNCHANGED <<ret, created>>
       ELSE \/ /\ \E r \in (IF creStale[t]
                            THEN {InstanceRet(cre[t], NextInstance(cre[t])), GarbageRet}
                            ELSE {InstanceRet(cre[t], NextInstance(cre[t]))}) :
                      /\ ret' = [ret EXCEPT ![t] = r]
                      /\ Goto(t, IF cre[t].policy = "advance" /\ r.kind = "instance"
                                 THEN "gc_insert" ELSE "gc_exit")
               /\ created' = IF cre[t] \in DOMAIN created
                              THEN [created EXCEPT ![cre[t]] = @ \cup {NextInstance(cre[t])}]
                              ELSE created
               /\ UNCHANGED exc
            \/ /\ creStale[t]
               /\ Goto(t, "gc_fault")
               /\ UNCHANGED <<ret, created, exc>>
    /\ UNCHANGED <<loaderVars, osVars, heap, deleteSet, arg, li, cre, creStale, outcome,
                   entryMap, cands, ghostVars>>
    /\ UNCHANGED iterVars

\* the threads that are inside deleteSet.insert of the creator the thread t uses
Inserting(t) == {u \in Threads \ {t} : pc[u] = "gc_insert" /\ cre[u] = cre[t]}

\* std::set::insert when nothing else touches the set
set_insert(ds, b) == ds \cup {b}

\* factoryCreatorAdvance::create: this->deleteSet.insert(b); return b;
\* create() runs outside the loader's mutex and the creator has no lock of its own: two
\* threads inside insert on one std::set are a data race, after which the set holds
\* the new element or has lost it
gc_insert(t) ==
    /\ pc[t] = "gc_insert"
    /\ IF cre[t] \in DOMAIN deleteSet
       THEN \E ds \in (IF Inserting(t) # {}
                       THEN {set_insert(deleteSet[cre[t]], ret[t].n), deleteSet[cre[t]]}
                       ELSE {set_insert(deleteSet[cre[t]], ret[t].n)}) :
                deleteSet' = [deleteSet EXCEPT ![cre[t]] = ds]
       ELSE UNCHANGED deleteSet
    /\ Goto(t, "gc_exit")
    /\ UNCHANGED <<loaderVars, osVars, heap, created, arg, localVars, ghostVars>>
    /\ UNCHANGED iterVars

\* getClass returns or the exception reaches the caller
gc_exit(t) ==
    /\ pc[t] = "gc_exit"
    /\ Goto(t, "idle")
    /\ arg' = [arg EXCEPT ![t] = ""]
    /\ ClearLocals(t)
    /\ UNCHANGED <<loaderVars, osVars, heapVars, ghostVars>>
    /\ UNCHANGED iterVars

\* hasClass -> getCreator: std::lock_guard<std::mutex> lock(mutex)
hc_lock(t) ==
    /\ pc[t] = "hc_lock"
    /\ LockFree(mutex)
    /\ mutex' = t
    /\ Goto(t, "hc_search")
    /\ UNCHANGED <<map, destroyed, osVars, heapVars, arg, localVars, ghostVars>>
    /\ UNCHANGED iterVars

\* hasClass: return (getCreator(className) != NULL);
hc_search(t) ==
    /\ pc[t] = "hc_search"
    /\ \E order \in Orders(DOMAIN map) :
           LET c == getCreatorLoop(map, order, 1, arg[t])
           IN  /\ cre' = [cre EXCEPT ![t] = c]
               /\ ret' = [ret EXCEPT ![t] = BoolRet(~c.null)]
    /\ cands' = [cands EXCEPT ![t] = RegisteredCreators(map, arg[t])]
    /\ mutex' = 0
    /\ Goto(t, "hc_exit")
    /\ UNCHANGED <<map, destroyed, osVars, heapVars, arg, li, creStale, exc, outcome, entryMap,
                   ghostVars>>
    /\ UNCHANGED iterVars

\* hasClass returns
hc_exit(t) ==
    /\ pc[t] = "hc_exit"
    /\ Goto(t, "idle")
    /\ arg' = [arg EXCEPT ![t] = ""]
    /\ ClearLocals(t)
    /\ UNCHANGED <<loaderVars, osVars, heapVars, ghostVars>>
    /\ UNCHANGED iterVars

\* ------------------------------- classLoader::isLibraryLoaded / getFactory

\* getFactory: std::lock_guard<std::mutex> lock(mutex)
il_lock(t) ==
    /\ pc[t] = "il_lock"
    /\ LockFree(mutex)
    /\ mutex' = t
    /\ Goto(t, "il_find")
    /\ UNCHANGED <<map, destroyed, osVars, heapVars, arg, localVars, ghostVars>>
    /\ UNCHANGED iterVars

\* isLibraryLoaded: return (getFactory(path) != NULL);
il_find(t) ==
    /\ pc[t] = "il_find"
    /\ ret' = [ret EXCEPT ![t] = BoolRet(getFactoryNotNull(map, arg[t]))]
    /\ mutex' = 0
    /\ Goto(t, "il_exit")
    /\ UNCHANGED <<map, destroyed, osVars, heapVars, arg, li, cre, creStale, exc, outcome, entryMap,
                   cands, ghostVars>>
    /\ UNCHANGED iterVars

\* isLibraryLoaded returns
il_exit(t) ==
    /\ pc[t] = "il_exit"
    /\ Goto(t, "idle")
    /\ arg' = [arg EXCEPT ![t] = ""]
    /\ ClearLocals(t)
    /\ UNCHANGED <<loaderVars, osVars, heapVars, ghostVars>>
    /\ UNCHANGED iterVars

\* ------------------------------------- classLoader::begin / end / Iterator

\* the host starts for (it = loader.begin(); it != loader.end(); ++it) use(*it)
Call_iterate(t) ==
    /\ ~destroyed
    /\ pc[t] = "idle"
    /\ Goto(t, "it_begin")
    /\ UNCHANGED <<loaderVars, osVars, heapVars, arg, localVars, ghostVars, iterVars>>

\* the nodes _map.begin() may be: any node of the map, or end() for an empty map
BeginNodes(m) == IF DOMAIN m = {} THEN {End} ELSE DOMAIN m

\* begin(): lock_guard lock(mutex); return Iterator(_map.begin()); the lock is
\* released when begin() returns
it_begin(t) ==
    /\ pc[t] = "it_begin"
    /\ LockFree(mutex)
    /\ \E n \in BeginNodes(map) :
           _it' = [_it EXCEPT ![t] = Iterator(n, {n} \ {End}, DOMAIN map)]
    /\ Goto(t, "it_test")
    /\ UNCHANGED <<loaderVars, osVars, heapVars, arg, localVars, ghostVars, _pair>>

\* it != loader.end(): end() takes and releases the lock, operator != compares without
it_test(t) ==
    /\ pc[t] = "it_test"
    /\ LockFree(mutex)
    /\ Goto(t, IF _it[t].node = End THEN "it_exit" ELSE "it_deref")
    /\ UNCHANGED <<loaderVars, osVars, heapVars, arg, localVars, ghostVars, iterVars>>

\* what operator * may leave in _pair: the key and the registry pointer of the node;
\* reading a node that was erased is undefined behaviour
Dereference(m, n) ==
    IF n \in DOMAIN m THEN {Pair(n, m[n].pFactory)}
    ELSE IF n = Wild THEN {GarbagePair}
    ELSE {Pair(n, DeletedFactory), GarbagePair}

\* operator *: _pair.first = _it->first; _pair.second = _it->second.pFactory; no lock
it_deref(t) ==
    /\ pc[t] = "it_deref"
    /\ \E p \in Dereference(map, _it[t].node) : _pair' = [_pair EXCEPT ![t] = p]
    /\ Goto(t, "it_next")
    /\ UNCHANGED <<loaderVars, osVars, heapVars, arg, localVars, ghostVars, _it>>

\* the nodes ++_it may lead to: a key not yet visited, where a key inserted since
\* begin() may be ahead of the iterator or behind it, and end() after the last one;
\* advancing from a node that was erased is undefined behaviour
Successors(m, i) ==
    LET rest == DOMAIN m \ i.seen
    IN  IF i.node \in DOMAIN m
        THEN rest \cup (IF rest \cap i.atBegin = {} THEN {End} ELSE {})
        ELSE rest \cup {End, Wild}

\* operator ++: ++_it; no lock
it_next(t) ==
    /\ pc[t] = "it_next"
    /\ \E n \in Successors(map, _it[t]) :
           _it' = [_it EXCEPT ![t] = Iterator(n, _it[t].seen \cup ({n} \ {End, Wild}),
                                              _it[t].atBegin)]
    /\ Goto(t, "it_test")
    /\ UNCHANGED <<loaderVars, osVars, heapVars, arg, localVars, ghostVars, _pair>>

\* the loop ends and the iterator goes out of scope
it_exit(t) ==
    /\ pc[t] = "it_exit"
    /\ Goto(t, "idle")
    /\ _it' = [_it EXCEPT ![t] = NoIterator]
    /\ _pair' = [_pair EXCEPT ![t] = NoPair]
    /\ UNCHANGED <<loaderVars, osVars, heapVars, arg, localVars, ghostVars>>

\* ------------------------------------------------ classLoader::~classLoader

\* the OS after the destructor's loop body ran for the record of p:
\* pLibrary->unload(); delete pLibrary; delete pFactory;
DestructorOs(m, os, p) ==
    LET u == shared_library_unload(m[p].pLibrary, os)
    IN  shared_library_delete(u.lib, u.os).os

\* the host destroys the loader once no call is running on it
Destroy ==
    /\ ~destroyed
    /\ \A t \in Threads : pc[t] = "idle"
    /\ destroyed' = TRUE
    /\ osRef' = [p \in Paths |->
                    IF p \in DOMAIN map THEN DestructorOs(map, osRef, p)[p] ELSE osRef[p]]
    /\ map' = << >>
    /\ deleteSet' = << >>
    /\ created' = << >>
    /\ UNCHANGED <<mutex, leakedLi, leakedLib, pc, arg, localVars, ghostVars, heap>>
    /\ UNCHANGED iterVars

\* ------------------------------------- sharedLibrary used by the host directly

\* the paths and symbol names the host passes to a sharedLibrary of its own
HandlePaths == {"libA", "libB", "libMissing"}
SymbolNames == {"initializeLibrary", "buildFactory", "noSuchSymbol"}

\* the sharedLibrary object of thread t
Lib(t) == li[t].pLibrary

\* the host calls one method of one of its sharedLibrary objects at a time
SoloCall(t) == \A u \in Threads : pc[u] = "idle"

\* the host starts a call of method m with argument a on the sharedLibrary of thread t
Call_sharedLibrary(t, m, a) ==
    /\ SoloCall(t)
    /\ Lib(t).alloc <=> m # "sl_new"
    /\ Goto(t, m)
    /\ arg' = [arg EXCEPT ![t] = a]
    /\ UNCHANGED <<loaderVars, osVars, heapVars, localVars, ghostVars>>
    /\ UNCHANGED iterVars

\* new sharedLibrary()
sl_new(t) ==
    /\ pc[t] = "sl_new"
    /\ li' = [li EXCEPT ![t].pLibrary = NewSharedLibrary]
    /\ outcome' = [outcome EXCEPT ![t] = "new"]
    /\ Goto(t, "sl_ret")
    /\ UNCHANGED <<loaderVars, osVars, heapVars, arg, cre, creStale, exc, ret, entryMap,
                   cands, ghostVars>>
    /\ UNCHANGED iterVars

\* pLibrary->load(path)
sl_load(t) ==
    /\ pc[t] = "sl_load"
    /\ LET r == shared_library_load(Lib(t), arg[t], osRef)
       IN  /\ li' = [li EXCEPT ![t].pLibrary = r.lib]
           /\ osRef' = r.os
           /\ exc' = [exc EXCEPT ![t] = r.threw]
    /\ outcome' = [outcome EXCEPT ![t] = IF isLoaded(Lib(t)) THEN "loadOnOpen" ELSE "load"]
    /\ Goto(t, "sl_ret")
    /\ UNCHANGED <<loaderVars, leakedLi, leakedLib, heapVars, arg, cre, creStale, ret,
                   entryMap, cands, ghostVars>>
    /\ UNCHANGED iterVars

\* pLibrary->unload()
sl_unload(t) ==
    /\ pc[t] = "sl_unload"
    /\ LET r == shared_library_unload(Lib(t), osRef)
       IN  /\ li' = [li EXCEPT ![t].pLibrary = r.lib]
           /\ osRef' = r.os
    /\ outcome' = [outcome EXCEPT ![t] =
                      IF isLoaded(Lib(t)) THEN "unload" ELSE "unloadOnClosed"]
    /\ Goto(t, "sl_ret")
    /\ UNCHANGED <<loaderVars, leakedLi, leakedLib, heapVars, arg, cre, creStale, exc, ret,
                   entryMap, cands, ghostVars>>
    /\ UNCHANGED iterVars

\* pLibrary->isLoaded()
sl_isLoaded(t) ==
    /\ pc[t] = "sl_isLoaded"
    /\ ret' = [ret EXCEPT ![t] = BoolRet(isLoaded(Lib(t)))]
    /\ outcome' = [outcome EXCEPT ![t] = "isLoaded"]
    /\ Goto(t, "sl_ret")
    /\ UNCHANGED <<loaderVars, osVars, heapVars, arg, li, cre, creStale, exc, entryMap,
                   cands, ghostVars>>
    /\ UNCHANGED iterVars

\* pLibrary->findSymbol(name)
sl_findSymbol(t) ==
    /\ pc[t] = "sl_findSymbol"
    /\ LET r == findSymbol(Lib(t), arg[t])
       IN  /\ exc' = [exc EXCEPT ![t] = r.threw]
           /\ ret' = [ret EXCEPT ![t] =
                         IF r.threw = NoException THEN SymbolRet(r.result) ELSE VoidRet]
    /\ outcome' = [outcome EXCEPT ![t] = "findSymbol"]
    /\ Goto(t, "sl_ret")
    /\ UNCHANGED <<loaderVars, osVars, heapVars, arg, li, cre, creStale, entryMap, cands,
                   ghostVars>>
    /\ UNCHANGED iterVars

\* pLibrary->hasSymbol(name)
sl_hasSymbol(t) ==
    /\ pc[t] = "sl_hasSymbol"
    /\ LET r == hasSymbol(Lib(t), arg[t])
       IN  /\ exc' = [exc EXCEPT ![t] = r.threw]
           /\ ret' = [ret EXCEPT ![t] =
                         IF r.threw = NoException THEN BoolRet(r.result) ELSE VoidRet]
    /\ outcome' = [outcome EXCEPT ![t] = "hasSymbol"]
    /\ Goto(t, "sl_ret")
    /\ UNCHANGED <<loaderVars, osVars, heapVars, arg, li, cre, creStale, entryMap, cands,
                   ghostVars>>
    /\ UNCHANGED iterVars

\* delete pLibrary
sl_delete(t) ==
    /\ pc[t] = "sl_delete"
    /\ LET r == shared_library_delete(Lib(t), osRef)
       IN  /\ li' = [li EXCEPT ![t].pLibrary = r.lib]
           /\ osRef' = r.os
    /\ outcome' = [outcome EXCEPT ![t] = IF isLoaded(Lib(t)) THEN "delete" ELSE "deleteClosed"]
    /\ Goto(t, "sl_ret")
    /\ UNCHANGED <<loaderVars, leakedLi, leakedLib, heapVars, arg, cre, creStale, exc, ret,
                   entryMap, cands, ghostVars>>
    /\ UNCHANGED iterVars

\* the method returns or its exception reaches the host
sl_ret(t) ==
    /\ pc[t] = "sl_ret"
    /\ Goto(t, "idle")
    /\ arg' = [arg EXCEPT ![t] = ""]
    /\ exc' = [exc EXCEPT ![t] = NoException]
    /\ ret' = [ret EXCEPT ![t] = VoidRet]
    /\ outcome' = [outcome EXCEPT ![t] = "none"]
    /\ UNCHANGED <<loaderVars, osVars, heapVars, li, cre, creStale, entryMap, cands,
                   ghostVars>>
    /\ UNCHANGED iterVars

sharedLibrary(t) ==
    \/ sl_new(t)
    \/ sl_load(t)
    \/ sl_unload(t)
    \/ sl_isLoaded(t)
    \/ sl_findSymbol(t)
    \/ sl_hasSymbol(t)
    \/ sl_delete(t)
    \/ sl_ret(t)

\* ------------------------------------------ factory used by the host directly

\* the identifiers and the creators the host registers in a factory of its own
FactoryIds == {"A", "B"}
FactoryCreators == {NewCreator("host", k, "basic") : k \in {"X", "Y"}}

\* the thread that owns the host's factory (a factory has no lock)
FactoryOwner == 1

\* the factory of the host
Fac(t) == li[t].pFactory

\* the host starts a call of method m of its factory with identifier id and creator c
Call_factory(t, m, id, c) ==
    /\ pc[t] = "idle"
    /\ Fac(t).alloc <=> m # "fa_new"
    /\ m = "fa_create" => \A k \in DOMAIN created : Cardinality(created[k]) < MaxInst
    /\ Goto(t, m)
    /\ arg' = [arg EXCEPT ![t] = id]
    /\ cre' = [cre EXCEPT ![t] = c]
    /\ UNCHANGED <<loaderVars, osVars, heapVars, li, creStale, exc, ret, outcome, entryMap,
                   cands, ghostVars>>
    /\ UNCHANGED iterVars

\* new factory<std::string, B>()
fa_new(t) ==
    /\ pc[t] = "fa_new"
    /\ li' = [li EXCEPT ![t].pFactory = NewFactory(HostBase)]
    /\ outcome' = [outcome EXCEPT ![t] = "new"]
    /\ Goto(t, "fa_ret")
    /\ UNCHANGED <<loaderVars, osVars, heapVars, arg, cre, creStale, exc, ret, entryMap,
                   cands, ghostVars>>
    /\ UNCHANGED iterVars

\* pFactory->insert(id, c) with a creator the host allocated
fa_insert(t) ==
    /\ pc[t] = "fa_insert"
    /\ li' = [li EXCEPT ![t].pFactory = factory_insert(@, arg[t], cre[t])]
    /\ heap' = heap \cup {cre[t]}
    /\ created' = IF cre[t] \in DOMAIN created THEN created ELSE FnPut(created, {cre[t]}, {})
    /\ outcome' = [outcome EXCEPT ![t] =
                      IF factory_has(Fac(t), arg[t]) THEN "insertOver" ELSE "insert"]
    /\ Goto(t, "fa_ret")
    /\ UNCHANGED <<loaderVars, osVars, deleteSet, arg, cre, creStale, exc, ret, entryMap,
                   cands, ghostVars>>
    /\ UNCHANGED iterVars

\* pFactory->find(id) and pFactory->size()
fa_find(t) ==
    /\ pc[t] = "fa_find"
    /\ ret' = [ret EXCEPT ![t] = [BoolRet(factory_has(Fac(t), arg[t]))
                                    EXCEPT !.n = factory_size(Fac(t))]]
    /\ outcome' = [outcome EXCEPT ![t] = "find"]
    /\ Goto(t, "fa_ret")
    /\ UNCHANGED <<loaderVars, osVars, heapVars, arg, li, cre, creStale, exc, entryMap,
                   cands, ghostVars>>
    /\ UNCHANGED iterVars

\* pFactory->create(id)
fa_create(t) ==
    /\ pc[t] = "fa_create"
    /\ LET r == factory_create(Fac(t), arg[t])
       IN  /\ li' = [li EXCEPT ![t].pFactory = r.fac]
           /\ exc' = [exc EXCEPT ![t] = r.threw]
           /\ cre' = [cre EXCEPT ![t] = r.creator]
           /\ IF r.threw = NoException
              THEN /\ ret' = [ret EXCEPT ![t] = InstanceRet(r.creator, NextInstance(r.creator))]
                   /\ created' = [created EXCEPT ![r.creator] =
                                     @ \cup {NextInstance(r.creator)}]
              ELSE UNCHANGED <<ret, created>>
    /\ outcome' = [outcome EXCEPT ![t] = "create"]
    /\ Goto(t, "fa_ret")
    /\ UNCHANGED <<loaderVars, osVars, heap, deleteSet, arg, creStale, entryMap, cands,
                   ghostVars>>
    /\ UNCHANGED iterVars

\* the method returns or its exception reaches the host
fa_ret(t) ==
    /\ pc[t] = "fa_ret"
    /\ Goto(t, "idle")
    /\ arg' = [arg EXCEPT ![t] = ""]
    /\ cre' = [cre EXCEPT ![t] = NullCreator]
    /\ exc' = [exc EXCEPT ![t] = NoException]
    /\ ret' = [ret EXCEPT ![t] = VoidRet]
    /\ outcome' = [outcome EXCEPT ![t] = "none"]
    /\ UNCHANGED <<loaderVars, osVars, heapVars, li, creStale, entryMap, cands, ghostVars>>
    /\ UNCHANGED iterVars

\* -------------------------------------------------------------------- Next

\* a path whose load runs every step to the end: the file opens, initializeLibrary (if
\* exported) returns, buildFactory is exported and reports success
Loadable(p) ==
    /\ Plugin(p).exists
    /\ "buildFactory" \in Plugin(p).symbols
    /\ ~("initializeLibrary" \in Plugin(p).symbols /\ Plugin(p).initThrows)
    /\ buildFactory(p, NewFactory(HostBase)).threw = NoException
    /\ buildFactory(p, NewFactory(HostBase)).result

GoodPaths == {p \in Paths : Loadable(p)}

\* the well-formed libraries and one that lacks the build symbol
SomePaths == GoodPaths \cup {"libNoBuild"}

loadLibrary(t) ==
    \/ ll_lock(t)
    \/ ll_find(t)
    \/ ll_open(t)
    \/ ll_init(t)
    \/ ll_build(t)
    \/ ll_catch(t)
    \/ ll_exit(t)

unloadLibrary(t) ==
    \/ ul_lock(t)
    \/ ul_find(t)
    \/ ul_uninit(t)
    \/ ul_delfactory(t)
    \/ ul_unload(t)
    \/ ul_erase(t)
    \/ ul_exit(t)

getClass(t) ==
    \/ gc_lock(t)
    \/ gc_search(t)
    \/ gc_create(t)
    \/ gc_exit(t)

hasClass(t) ==
    \/ hc_lock(t)
    \/ hc_search(t)
    \/ hc_exit(t)

isLibraryLoaded(t) ==
    \/ il_lock(t)
    \/ il_find(t)
    \/ il_exit(t)

\* the paths the host unloads: those it may hold, and one whose load reported no error
\* although it installed nothing
UnloadPaths == SomePaths \cup {"libBuildFalse"}

\* the host starts a call while at most one other call is running
TwoAtATime == Cardinality({u \in Threads : pc[u] # "idle"}) <= 1

\* the life cycle of the libraries: the host loads and unloads every kind of path, two
\* calls at a time, and destroys the loader at the end
Next ==
    \/ \E t \in Threads, p \in Paths : TwoAtATime /\ Call_loadLibrary(t, p)
    \/ \E t \in Threads, p \in UnloadPaths : TwoAtATime /\ Call_unloadLibrary(t, p)
    \/ \E t \in Threads : loadLibrary(t)
    \/ \E t \in Threads : unloadLibrary(t)
    \/ Destroy

Spec == Init /\ [][Next]_vars

\* every thread of the host loads and unloads at once
NextConcurrent ==
    \/ \E t \in Threads, p \in SomePaths : Call_loadLibrary(t, p)
    \/ \E t \in Threads, p \in GoodPaths : Call_unloadLibrary(t, p)
    \/ \E t \in Threads : loadLibrary(t)
    \/ \E t \in Threads : unloadLibrary(t)
    \/ Destroy

SpecConcurrent == Init /\ [][NextConcurrent]_vars

\* the names under which no library registers a managed creator
UnmanagedNames ==
    {n \in ClassNames :
        \A p \in Paths : n \in DOMAIN Plugin(p).exports => Plugin(p).exports[n] = "basic"}

\* the lookups: the host loads and unloads the well-formed libraries, creates unmanaged
\* classes by name and asks what is there, two calls at a time
NextLookup ==
    \/ \E t \in Threads, p \in SomePaths : TwoAtATime /\ Call_loadLibrary(t, p)
    \/ \E t \in Threads, p \in GoodPaths : TwoAtATime /\ Call_unloadLibrary(t, p)
    \/ \E t \in Threads, n \in UnmanagedNames : TwoAtATime /\ Call_getClass(t, n)
    \/ \E t \in Threads, n \in ClassNames : TwoAtATime /\ Call_hasClass(t, n)
    \/ \E t \in Threads, p \in SomePaths : TwoAtATime /\ Call_isLibraryLoaded(t, p)
    \/ \E t \in Threads : loadLibrary(t)
    \/ \E t \in Threads : unloadLibrary(t)
    \/ \E t \in Threads : getClass(t)
    \/ \E t \in Threads : hasClass(t)
    \/ \E t \in Threads : isLibraryLoaded(t)

SpecLookup == Init /\ [][NextLookup]_vars

\* the names the host creates instances of: one unmanaged, one managed, in two libraries
CreateNames == {"A", "B"}

\* creation: the host loads libraries, in either order, keeps them loaded and creates
\* managed and unmanaged instances, two calls at a time
NextCreate ==
    \/ \E t \in Threads, p \in SomePaths : TwoAtATime /\ Call_loadLibrary(t, p)
    \/ \E t \in Threads, n \in CreateNames : TwoAtATime /\ Call_getClass(t, n)
    \/ \E t \in Threads : loadLibrary(t)
    \/ \E t \in Threads : getClass(t)
    \/ \E t \in Threads : gc_insert(t)

SpecCreate == Init /\ [][NextCreate]_vars

\* the handle on its own: each host thread owns one sharedLibrary, which it opens,
\* queries, closes and deletes in any order
NextHandle ==
    \/ \E t \in Threads : Call_sharedLibrary(t, "sl_new", "")
    \/ \E t \in Threads, p \in HandlePaths : Call_sharedLibrary(t, "sl_load", p)
    \/ \E t \in Threads : Call_sharedLibrary(t, "sl_unload", "")
    \/ \E t \in Threads : Call_sharedLibrary(t, "sl_isLoaded", "")
    \/ \E t \in Threads, n \in SymbolNames : Call_sharedLibrary(t, "sl_findSymbol", n)
    \/ \E t \in Threads, n \in SymbolNames : Call_sharedLibrary(t, "sl_hasSymbol", n)
    \/ \E t \in Threads : Call_sharedLibrary(t, "sl_delete", "")
    \/ \E t \in Threads : sharedLibrary(t)

SpecHandle == Init /\ [][NextHandle]_vars

\* the registry on its own: the host makes a factory, registers its creators under
\* identifiers, again and again, looks identifiers up and creates by identifier
NextFactory ==
    \/ Call_factory(FactoryOwner, "fa_new", "", NullCreator)
    \/ \E id \in FactoryIds, c \in FactoryCreators :
           Call_factory(FactoryOwner, "fa_insert", id, c)
    \/ \E id \in FactoryIds : Call_factory(FactoryOwner, "fa_find", id, NullCreator)
    \/ \E id \in FactoryIds : Call_factory(FactoryOwner, "fa_create", id, NullCreator)
    \/ fa_new(FactoryOwner)
    \/ fa_insert(FactoryOwner)
    \/ fa_find(FactoryOwner)
    \/ fa_create(FactoryOwner)
    \/ fa_ret(FactoryOwner)

SpecFactory == Init /\ [][NextFactory]_vars

iterate(t) ==
    \/ it_begin(t)
    \/ it_test(t)
    \/ it_deref(t)
    \/ it_next(t)
    \/ it_exit(t)

\* introspection: every thread of the host loads and unloads libraries and walks the
\* loader from begin() to end()
NextIterate ==
    \/ \E t \in Threads, p \in SomePaths : Call_loadLibrary(t, p)
    \/ \E t \in Threads, p \in GoodPaths : Call_unloadLibrary(t, p)
    \/ \E t \in Threads : Call_iterate(t)
    \/ \E t \in Threads : loadLibrary(t)
    \/ \E t \in Threads : unloadLibrary(t)
    \/ \E t \in Threads : iterate(t)

SpecIterate == Init /\ [][NextIterate]_vars

\* the paths and the name of a host that uses every method: a library that loads, a
\* library whose load fails, and a class of the first
LivePaths == {"libA", "libNoBuild"}
LiveNames == {"A"}

\* the steps of whatever method the thread is in
Step(t) ==
    \/ loadLibrary(t)
    \/ unloadLibrary(t)
    \/ getClass(t)
    \/ hasClass(t)
    \/ isLibraryLoaded(t)

\* every thread of the host calls every method of the loader at any time
NextLive ==
    \/ \E t \in Threads, p \in LivePaths : Call_loadLibrary(t, p)
    \/ \E t \in Threads, p \in LivePaths : Call_unloadLibrary(t, p)
    \/ \E t \in Threads, n \in LiveNames : Call_getClass(t, n)
    \/ \E t \in Threads, n \in LiveNames : Call_hasClass(t, n)
    \/ \E t \in Threads, p \in LivePaths : Call_isLibraryLoaded(t, p)
    \/ \E t \in Threads : Step(t)

\* the scheduler lets every thread that can run take its next step, and a thread that
\* waits for std::mutex gets it if the mutex is free again and again
Fairness ==
    \A t \in Threads :
        /\ WF_vars(Step(t))
        /\ SF_vars(ll_lock(t))
        /\ SF_vars(ul_lock(t))
        /\ SF_vars(gc_lock(t))
        /\ SF_vars(hc_lock(t))
        /\ SF_vars(il_lock(t))

SpecLive == Init /\ [][NextLive]_vars /\ Fairness

\* ------------------------------------------------------------------ claims

TypeOK ==
    /\ mutex \in {0} \cup Threads
    /\ \A p \in DOMAIN map : map[p].refCount \in 0..MaxRef
    /\ \A p \in Paths : osRef[p] \in 0..(MaxLeak + NThreads)

\* the reference count of p, 0 when p has no record
RefCountOf(p) == IF p \in DOMAIN map THEN map[p].refCount ELSE 0

ExportsUninit(p) == "uninitializeLibrary" \in Plugin(p).symbols

\* C1: with the loader's lock free, a path whose loads succeed is loaded exactly when
\* more loadLibrary calls for it have succeeded than unloadLibrary calls have followed:
\* after k loads and j < k unloads it is loaded, after the k-th unload it is not.
C1_ReferenceCounting ==
    (~destroyed /\ mutex = 0) =>
        \A p \in Paths : Loadable(p) => (getFactoryNotNull(map, p) <=> held[p] > 0)

\* load(P); load(P); unload(P) has run and P is still loaded
C1_Witness ==
    \E t \in Threads :
        /\ pc[t] = "ul_exit"
        /\ outcome[t] = "decrement"
        /\ held[arg[t]] = 2
        /\ getFactoryNotNull(map, arg[t])

\* C2: for a library that exports uninitializeLibrary the teardown callback runs once
\* per loaded period, in the unloadLibrary call that takes the count from 1 to 0: not
\* while the count is 1 or more, not in an unloadLibrary call that leaves it above 0,
\* and exactly once in the call that reaches 0.
C2_TeardownOnce ==
    \A p \in Paths : ExportsUninit(p) =>
        /\ calls[p].uninit <= 1
        /\ (p \in DOMAIN map /\ map[p].refCount >= 1) => calls[p].uninit = 0
        /\ \A t \in Threads :
              (pc[t] = "ul_exit" /\ arg[t] = p) =>
                  /\ outcome[t] = "released" => calls[p].uninit = 1
                  /\ outcome[t] = "decrement" => calls[p].uninit = 0

\* an unloadLibrary call took the count of a library with a teardown callback to zero
C2_Witness ==
    \E t \in Threads :
        /\ pc[t] = "ul_exit"
        /\ outcome[t] = "released"
        /\ ExportsUninit(arg[t])
        /\ calls[arg[t]].uninit = 1
        /\ arg[t] \notin DOMAIN map

\* C3: when a loadLibrary call for a path that was not loaded fails after the handle
\* was opened (initializeLibrary throws, buildFactory is absent, buildFactory throws,
\* or buildFactory returns false), then as the call finishes the map is as the call
\* found it, the registry allocated for the path is destroyed and the OS handle opened
\* for it is closed.
C3_TransactionalLoad ==
    \A t \in Threads :
        (/\ pc[t] = "ll_exit"
         /\ outcome[t] \in {"initThrew", "noBuild", "buildThrew", "buildFalse"}) =>
            /\ map = entryMap[t]
            /\ li[t] = NoLi
            /\ leakedLi[arg[t]] = 0
            /\ osRef[arg[t]] = 0

\* C4: loading a path whose library has no buildFactory symbol raises
\* librarySymbolMissingException, leaves the path not loaded and leaves no OS handle
\* open for it as the error reaches the caller.
C4_MissingBuildSymbol ==
    \A t \in Threads :
        (/\ pc[t] = "ll_exit"
         /\ Plugin(arg[t]).exists
         /\ "buildFactory" \notin Plugin(arg[t]).symbols
         /\ ~Plugin(arg[t]).initThrows) =>
            /\ exc[t] = "librarySymbolMissingException"
            /\ ~getFactoryNotNull(map, arg[t])
            /\ osRef[arg[t]] = 0
            /\ li[t] = NoLi

\* a load of the library without build symbol has opened the handle and is about to
\* hand its error to the caller
C4_Witness ==
    \E t \in Threads :
        /\ pc[t] = "ll_exit"
        /\ arg[t] = "libNoBuild"
        /\ calls[arg[t]].open = 1
        /\ outcome[t] = "noBuild"

\* C5: for a loadable path that was not loaded, loadLibrary followed by unloadLibrary
\* leaves the path not loaded and every OS open of it matched by an OS close.
C5_RoundTrip ==
    \A t \in Threads :
        (pc[t] = "ul_exit" /\ Loadable(arg[t]) /\ held[arg[t]] = 1) =>
            /\ ~getFactoryNotNull(map, arg[t])
            /\ osRef[arg[t]] = 0

\* the unloadLibrary that follows the one loadLibrary of a path is about to return
C5_Witness ==
    \E t \in Threads :
        /\ pc[t] = "ul_exit"
        /\ Loadable(arg[t])
        /\ held[arg[t]] = 1
        /\ outcome[t] = "released"

\* C6: when the threads call loadLibrary on one unloaded path at once and every step
\* succeeds, the OS open happens once, buildFactory runs once, there is one record and
\* no second libraryInfo for the path, and with the lock free the reference count is
\* the number of calls that have returned (N once all N have).
C6_ConcurrentLoad ==
    \A p \in Paths : Loadable(p) =>
        /\ osRef[p] <= 1
        /\ calls[p].open <= 1
        /\ calls[p].build <= 1
        /\ (p \in DOMAIN map /\ map[p].refCount >= 1) =>
              (osRef[p] = 1 /\ calls[p].open = 1 /\ calls[p].build = 1)
        /\ Cardinality({t \in Threads : li[t] # NoLi /\ arg[t] = p})
             + (IF p \in DOMAIN map THEN 1 ELSE 0) <= 1
        /\ (~destroyed /\ mutex = 0) => RefCountOf(p) = held[p]

\* every thread is inside loadLibrary of the same unloaded path, one of them building
C6_Witness ==
    \E p \in GoodPaths :
        /\ \A t \in Threads : pc[t] \in LoadPcs /\ arg[t] = p
        /\ \E t \in Threads : pc[t] = "ll_build"
        /\ p \notin DOMAIN map

\* C7: when the loader is destroyed, the teardown callback has been invoked for every
\* record that was still in the map and whose library exports uninitializeLibrary.
C7_DestructorTeardown ==
    destroyed =>
        \A p \in Paths : (calls[p].installed /\ ExportsUninit(p)) => calls[p].uninit = 1

\* C8: after the loader is destroyed every OS handle that a loadLibrary call opened
\* has been closed.
C8_NoLeakedHandles ==
    destroyed => \A p \in Paths : osRef[p] = 0

\* C9: getClass raises libraryCreateException exactly when no registry of a loaded
\* library contains the name, and otherwise returns an instance made by a creator
\* registered under the name in a loaded registry.
C9_GetClass ==
    \A t \in Threads :
        pc[t] = "gc_exit" =>
            /\ exc[t] = "libraryCreateException" <=> cands[t] = {}
            /\ cands[t] # {} =>
                  /\ ret[t].kind = "instance"
                  /\ \E c \in cands[t] : ret[t].concrete = <<c.lib, c.id>>

\* what hasClass and getClass decide against the same registries
C10_Lookup ==
    \A t \in Threads :
        /\ pc[t] = "hc_exit" =>
              /\ exc[t] = NoException
              /\ ret[t] = BoolRet(cands[t] # {})
        /\ pc[t] = "gc_exit" =>
              (exc[t] = "libraryCreateException" <=> cands[t] = {})

\* a step of hasClass leaves the map, the registries in it and the OS loader alone
C10_Frame ==
    \A t \in Threads :
        (pc[t] \in {"hc_lock", "hc_search", "hc_exit"} /\ pc'[t] # pc[t]) =>
            (map' = map /\ osRef' = osRef /\ leakedLi' = leakedLi)

\* C10: hasClass is true exactly when a registry of a loaded library contains the name,
\* which is exactly when getClass does not raise libraryCreateException; hasClass
\* returns a boolean, constructs no instance and changes no loader or registry state.
C10_HasClass == []C10_Lookup /\ [][C10_Frame]_vars

\* hasClass found a class that the first library in iteration order need not have
C10_Witness ==
    \E t \in Threads :
        /\ pc[t] = "hc_exit"
        /\ ret[t] = BoolRet(TRUE)
        /\ Cardinality(DOMAIN map) = 2
        /\ Cardinality(cands[t]) = 1

\* the libraries among S whose buildFactory registers the class name n
Exporters(S, n) == {p \in S : n \in DOMAIN Plugin(p).exports}

\* C11: with two libraries loaded, a getClass of a name that only one of them
\* registers succeeds and returns an instance of the concrete class which that library
\* registered under the name, whichever library was loaded first and in whatever order
\* the map is searched.
C11_CrossLibrarySearch ==
    \A t \in Threads :
        (pc[t] = "gc_exit" /\ Cardinality(DOMAIN entryMap[t]) = 2) =>
            \A p \in DOMAIN entryMap[t] :
                Exporters(DOMAIN entryMap[t], arg[t]) = {p} =>
                    /\ exc[t] = NoException
                    /\ ret[t].kind = "instance"
                    /\ ret[t].concrete = <<p, arg[t]>>

\* with libA and libB loaded, getClass("B") has made an object of libB's class B
C11_Witness ==
    \E t \in Threads :
        /\ pc[t] = "gc_exit"
        /\ DOMAIN entryMap[t] = {"libA", "libB"}
        /\ arg[t] = "B"
        /\ ret[t].concrete = <<"libB", "B">>

ExportsInit(p) == "initializeLibrary" \in Plugin(p).symbols

\* the callbacks a record has seen: initializeLibrary once if exported, buildFactory once
\* after it, on a registry that was empty
C12_Callbacks ==
    \A p \in Paths :
        /\ calls[p].init <= 1
        /\ calls[p].build <= 1
        /\ \A t \in Threads :
              (pc[t] = "ll_build" /\ arg[t] = p) =>
                  /\ calls[p].build = 0
                  /\ calls[p].init = (IF ExportsInit(p) THEN 1 ELSE 0)
                  /\ li[t].pFactory = NewFactory(HostBase)
        /\ p \in DOMAIN map =>
              /\ calls[p].build = 1
              /\ calls[p].init = (IF ExportsInit(p) THEN 1 ELSE 0)

\* a step of a loadLibrary call that only counts a reference invokes no callback
C12_Frame ==
    \A t \in Threads :
        (/\ pc[t] \in LoadPcs
         /\ pc'[t] # pc[t]
         /\ (outcome[t] = "increment" \/ outcome'[t] = "increment")) =>
            calls'[arg[t]] = calls[arg[t]]

\* C12: initializeLibrary and buildFactory run once per load that creates the record
\* of a path, initializeLibrary before buildFactory and buildFactory on an empty
\* registry, and a loadLibrary call that only increments the count of a loaded path
\* runs neither.
C12_InitBuildOnce == []C12_Callbacks /\ [][C12_Frame]_vars

\* a second loadLibrary of a library with both callbacks has counted its reference
C12_Witness ==
    \E t \in Threads :
        /\ pc[t] = "ll_exit"
        /\ outcome[t] = "increment"
        /\ ExportsInit(arg[t])
        /\ calls[arg[t]].init = 1
        /\ calls[arg[t]].build = 1
        /\ map[arg[t]].refCount = 2

\* an unloadLibrary call that found no record is about to return without an error
C13_NoError ==
    \A t \in Threads :
        (pc[t] = "ul_exit" /\ outcome[t] = "absent") =>
            (exc[t] = NoException /\ arg[t] \notin DOMAIN map)

\* a step of an unloadLibrary call that finds no record changes no record, no count,
\* no handle, no registry and runs no callback
C13_Frame ==
    \A t \in Threads :
        (/\ \/ pc[t] = "ul_find" /\ arg[t] \notin DOMAIN map
            \/ pc[t] = "ul_exit" /\ outcome[t] = "absent"
         /\ pc'[t] # pc[t]) =>
            /\ map' = map
            /\ osRef' = osRef
            /\ calls' = calls
            /\ deleteSet' = deleteSet
            /\ exc'[t] = NoException

\* C13: unloadLibrary of a path that is not in the map is a no-op: no error, no
\* callback, no handle closed, every record and count as before; also when the path
\* was loaded and fully unloaded before.
C13_UnloadAbsent == []C13_NoError /\ [][C13_Frame]_vars

\* an unloadLibrary of a path that had been loaded and fully unloaded found no record
C13_Witness ==
    \E t \in Threads :
        /\ pc[t] = "ul_exit"
        /\ outcome[t] = "absent"
        /\ Loadable(arg[t])
        /\ \E c \in heap : c.lib = arg[t]
        /\ osRef[arg[t]] = 0

\* a library whose macro-generated buildFactory was compiled against another base class
Mismatched(p) ==
    /\ Plugin(p).exists
    /\ "buildFactory" \in Plugin(p).symbols
    /\ Plugin(p).build = "macro"
    /\ Plugin(p).base # HostBase
    /\ ~(ExportsInit(p) /\ Plugin(p).initThrows)

\* C14: when the registry handed to a macro-generated buildFactory has another
\* typeName than the plugin was compiled against, buildFactory inserts nothing and
\* raises typeMismatchException, and loadLibrary ends with that error, the path not
\* loaded and its handle closed.
C14_TypeMismatch ==
    \A t \in Threads :
        (arg[t] \in Paths /\ Mismatched(arg[t])) =>
            /\ pc[t] = "ll_catch" =>
                  /\ exc[t] = "typeMismatchException"
                  /\ li[t].pFactory = NewFactory(HostBase)
            /\ pc[t] = "ll_exit" =>
                  /\ exc[t] = "typeMismatchException"
                  /\ ~getFactoryNotNull(map, arg[t])
                  /\ osRef[arg[t]] = 0
                  /\ li[t] = NoLi
            /\ \A c \in heap : c.lib # arg[t]

\* the load of the mismatched library opened it, ran its buildFactory and is about to
\* hand typeMismatchException to the caller
C14_Witness ==
    \E t \in Threads :
        /\ pc[t] = "ll_exit"
        /\ arg[t] = "libMismatch"
        /\ calls[arg[t]].open = 1
        /\ calls[arg[t]].build = 1
        /\ exc[t] = "typeMismatchException"

\* 1 when the sharedLibrary object holds an OS handle of path p, else 0
OpenOn(lib, p) == IF lib.handle = Suffixed(p) THEN 1 ELSE 0

\* the OS has as many opens of a path outstanding as there are objects holding a
\* handle of it
C15_Balance ==
    \A p \in Paths :
        osRef[p] = Cardinality({t \in Threads : Lib(t).handle = Suffixed(p)})

\* load() on an open handle raises libraryOverwriteException and changes neither the
\* object nor the OS
C15_Overwrite ==
    \A t \in Threads :
        (pc[t] = "sl_load" /\ pc'[t] = "sl_ret" /\ isLoaded(Lib(t))) =>
            /\ exc'[t] = "libraryOverwriteException"
            /\ li'[t].pLibrary = Lib(t)
            /\ osRef' = osRef

\* every step of a method moves the OS count of each path by what the object gained or
\* gave up, so that an object's opens minus closes is 1 while it is open and 0 otherwise
C15_Accounting ==
    \A t \in Threads :
        pc'[t] # pc[t] =>
            \A p \in Paths :
                osRef'[p] - osRef[p] = OpenOn(li'[t].pLibrary, p) - OpenOn(Lib(t), p)

\* C15: load() on an already open handle raises libraryOverwriteException and leaves
\* the live OS handle and the stored path as they were; for every handle object the OS
\* opens minus the OS closes are 0 (closed) or 1 (open), never more.
C15_NoDoubleOpen == []C15_Balance /\ [][C15_Overwrite /\ C15_Accounting]_vars

\* load() of another path on an open handle has raised libraryOverwriteException
C15_Witness ==
    \E t \in Threads :
        /\ pc[t] = "sl_ret"
        /\ outcome[t] = "loadOnOpen"
        /\ exc[t] = "libraryOverwriteException"
        /\ isLoaded(Lib(t))
        /\ Lib(t).path # Suffixed(arg[t])
        /\ osRef[Lib(t).path[1]] = 1

\* a sharedLibrary whose last load() failed in the OS loader: closed, with the path of
\* a file the OS cannot load
AfterFailedLoad(lib) ==
    /\ lib.alloc
    /\ ~isLoaded(lib)
    /\ lib.path # << >>
    /\ ~Plugin(lib.path[1]).exists

\* load() of a file the OS cannot load has raised libraryLoadException and the handle
\* is closed
C16_Failed ==
    \A t \in Threads :
        (pc[t] = "sl_ret" /\ outcome[t] = "load" /\ ~Plugin(arg[t]).exists) =>
            /\ exc[t] = "libraryLoadException"
            /\ AfterFailedLoad(Lib(t))
            /\ osRef[arg[t]] = 0

\* on a handle whose load failed, a further load() is not refused and opens a file
\* that exists, and findSymbol raises libraryAccessException
C16_Afterwards ==
    \A t \in Threads :
        (AfterFailedLoad(Lib(t)) /\ pc'[t] = "sl_ret") =>
            /\ pc[t] = "sl_load" =>
                  /\ exc'[t] # "libraryOverwriteException"
                  /\ Plugin(arg[t]).exists =>
                        (exc'[t] = NoException /\ isLoaded(li'[t].pLibrary))
            /\ pc[t] = "sl_findSymbol" => exc'[t] = "libraryAccessException"

\* C16: a load() whose OS loader call fails raises libraryLoadException and leaves the
\* handle closed, so that a later load() on the object is permitted and a later
\* findSymbol raises libraryAccessException.
C16_FailedOpen == []C16_Failed /\ [][C16_Afterwards]_vars

\* findSymbol on a handle whose load() failed has raised libraryAccessException
C16_Witness ==
    \E t \in Threads :
        /\ pc[t] = "sl_ret"
        /\ outcome[t] = "findSymbol"
        /\ AfterFailedLoad(Lib(t))
        /\ exc[t] = "libraryAccessException"

\* the OS after one dlclose of the handle the object holds
Closed(lib, os) == [os EXCEPT ![lib.handle[1]] = @ - 1]

\* unload(), and the unload() of the destructor, close an open handle once and do
\* nothing to a closed one; neither raises
C17_Unload ==
    \A t \in Threads :
        (pc[t] \in {"sl_unload", "sl_delete"} /\ pc'[t] = "sl_ret") =>
            /\ exc'[t] = NoException
            /\ ~isLoaded(li'[t].pLibrary)
            /\ IF isLoaded(Lib(t))
               THEN osRef' = Closed(Lib(t), osRef)
               ELSE /\ osRef' = osRef
                    /\ pc[t] = "sl_unload" => li'[t] = li[t]

\* from every state the host can bring a handle into, unload() twice leaves the object
\* and the OS as unload() once does
C17_Twice ==
    \A t \in Threads :
        Lib(t).alloc =>
            LET once == shared_library_unload(Lib(t), osRef)
            IN  /\ shared_library_unload(once.lib, once.os) = once
                /\ ~isLoaded(once.lib)

\* C17: unload() on an open handle releases the OS handle exactly once and leaves the
\* handle closed; on a closed handle it closes nothing and raises nothing; any number
\* of consecutive unload() calls has the effect of one.
C17_IdempotentClose == []C17_Twice /\ [][C17_Unload]_vars

\* unload() has run on a handle that an earlier unload() had closed
C17_Witness ==
    \E t \in Threads :
        /\ pc[t] = "sl_ret"
        /\ outcome[t] = "unloadOnClosed"
        /\ Lib(t).path # << >>
        /\ Plugin(Lib(t).path[1]).exists
        /\ osRef[Lib(t).path[1]] = 0
        /\ exc[t] = NoException

\* the module behind an open sharedLibrary exports the symbol
ModuleHas(lib, name) == name \in Plugin(lib.path[1]).symbols

\* C18: findSymbol raises libraryAccessException exactly when the handle is not open;
\* on an open handle it does not raise and returns the address of a symbol the module
\* has and null for one it lacks; hasSymbol raises under the same condition and is
\* true exactly when findSymbol returns a non-null address.
C18_FindSymbol ==
    \A t \in Threads :
        (pc[t] = "sl_ret" /\ outcome[t] \in {"findSymbol", "hasSymbol"}) =>
            /\ exc[t] = "libraryAccessException" <=> ~isLoaded(Lib(t))
            /\ isLoaded(Lib(t)) =>
                  /\ exc[t] = NoException
                  /\ outcome[t] = "findSymbol" =>
                        ret[t] = SymbolRet(IF ModuleHas(Lib(t), arg[t])
                                           THEN <<Lib(t).path[1], arg[t]>> ELSE NoHandle)
                  /\ outcome[t] = "hasSymbol" =>
                        /\ ret[t] = BoolRet(ModuleHas(Lib(t), arg[t]))
                        /\ ret[t].b <=> findSymbol(Lib(t), arg[t]).result # NoHandle

\* hasSymbol of a symbol the open module lacks has returned false without raising
C18_Witness ==
    \E t \in Threads :
        /\ pc[t] = "sl_ret"
        /\ outcome[t] = "hasSymbol"
        /\ isLoaded(Lib(t))
        /\ ~ModuleHas(Lib(t), arg[t])
        /\ ret[t] = BoolRet(FALSE)
        /\ exc[t] = NoException

\* C19: destroying a registry releases every creator registered in it: a creator that
\* is still allocated is registered in a registry that is still alive, whether the
\* registry went in unloadLibrary, in a rolled-back load or in the loader's destructor.
C19_RegistryReleasesCreators ==
    \A c \in heap :
        \E p \in DOMAIN map :
            /\ map[p].pFactory.alloc
            /\ c \in Creators(map[p].pFactory)

\* the threads that are inside create() of the creator c, past new C
InsideCreate(c) == {t \in Threads : pc[t] = "gc_insert" /\ cre[t] = c}

\* C20: whenever no create() of a managed creator is under way, the creator's retained
\* set is exactly the set of the instances its create() has made so far (the creator
\* releases them once each when it is destroyed); an unmanaged creator has no retained
\* set at all.
C20_ManagedCreator ==
    /\ \A c \in DOMAIN deleteSet :
          /\ c.policy = "advance"
          /\ InsideCreate(c) = {} => deleteSet[c] = created[c]
    /\ \A p \in DOMAIN map :
          Managed(Creators(map[p].pFactory)) \subseteq DOMAIN deleteSet

\* what insert(id, c) makes of the registry f into the registry g
InsertEffect(f, g, id, c) ==
    /\ factory_has(g, id)
    /\ factory_at(g, id) = c
    /\ factory_size(g) = factory_size(f) + (IF factory_has(f, id) THEN 0 ELSE 1)
    /\ \A k \in FactoryIds \ {id} :
          /\ factory_has(g, k) <=> factory_has(f, k)
          /\ factory_has(f, k) => factory_at(g, k) = factory_at(f, k)

\* a step of insert has that effect and raises nothing
C21_InsertStep ==
    \A t \in Threads :
        (pc[t] = "fa_insert" /\ pc'[t] = "fa_ret") =>
            /\ InsertEffect(Fac(t), li'[t].pFactory, arg[t], cre[t])
            /\ exc'[t] = NoException

\* when insert returns, find(id) yields the creator that was passed
C21_Found ==
    \A t \in Threads :
        (pc[t] = "fa_ret" /\ outcome[t] \in {"insert", "insertOver"}) =>
            (factory_has(Fac(t), arg[t]) /\ factory_at(Fac(t), arg[t]) = cre[t])

\* C21: insert is a permissive overwrite: after insert(id, s), find(id) yields s
\* whatever was registered under id before; a new id makes size() one larger, an
\* existing id leaves size() as it was, the entries under other ids stay, and insert
\* never raises.
C21_PermissiveInsert == []C21_Found /\ [][C21_InsertStep]_vars

\* insert has replaced the creator of an identifier in a registry of two entries
C21_Witness ==
    \E t \in Threads :
        /\ pc[t] = "fa_ret"
        /\ outcome[t] = "insertOver"
        /\ factory_size(Fac(t)) = 2
        /\ factory_at(Fac(t), arg[t]) = cre[t]
        /\ \E k \in FactoryIds \ {arg[t]} : factory_at(Fac(t), k) # cre[t]

\* a step of create(id): factoryException exactly for an identifier that is not
\* registered, the registry as before in either case, and for a registered identifier
\* one more instance of its creator and of no other
C22_CreateStep ==
    \A t \in Threads :
        (pc[t] = "fa_create" /\ pc'[t] = "fa_ret") =>
            /\ exc'[t] = "factoryException" <=> ~factory_has(Fac(t), arg[t])
            /\ exc'[t] \in {NoException, "factoryException"}
            /\ li'[t].pFactory = Fac(t)
            /\ IF factory_has(Fac(t), arg[t])
               THEN LET c == factory_at(Fac(t), arg[t])
                    IN  /\ ret'[t].kind = "instance"
                        /\ ret'[t].concrete = <<c.lib, c.id>>
                        /\ Cardinality(created'[c]) = Cardinality(created[c]) + 1
                        /\ \A k \in DOMAIN created \ {c} : created'[k] = created[k]
               ELSE created' = created

\* when create has raised, the identifier is still not registered
C22_Unknown ==
    \A t \in Threads :
        (pc[t] = "fa_ret" /\ outcome[t] = "create") =>
            (exc[t] = "factoryException" <=> ~factory_has(Fac(t), arg[t]))

\* C22: create(id) raises factoryException exactly when id is not registered and then
\* leaves the registry unchanged (no entry for id, size() the same); for a registered
\* id it invokes that id's creator once and returns its instance.
C22_Create == []C22_Unknown /\ [][C22_CreateStep]_vars

\* create of an unknown identifier has raised on a registry that holds another entry
C22_Witness ==
    \E t \in Threads :
        /\ pc[t] = "fa_ret"
        /\ outcome[t] = "create"
        /\ exc[t] = "factoryException"
        /\ factory_size(Fac(t)) = 1
        /\ ~factory_has(Fac(t), arg[t])

\* the positions of unloadLibrary between the decrement to zero and the erase
TeardownPcs == {"ul_uninit", "ul_delfactory", "ul_unload", "ul_erase"}

\* C23: while the loader's lock is free a path is in the map exactly when its reference
\* count is 1 or more; a record with count 0 exists only inside the critical section
\* of the unloadLibrary call that decremented it and that removes it before releasing
\* the lock, and no count is ever negative.
C23_RecordCount ==
    /\ (mutex = 0 /\ ~destroyed) =>
          \A p \in Paths : p \in DOMAIN map <=> RefCountOf(p) >= 1
    /\ \A p \in DOMAIN map :
          /\ map[p].refCount >= 0
          /\ map[p].refCount = 0 =>
                /\ mutex # 0
                /\ pc[mutex] \in TeardownPcs
                /\ arg[mutex] = p

\* one thread is removing a record whose count it took to zero while another waits for
\* the lock to load the same path
C23_Witness ==
    \E t, u \in Threads :
        /\ mutex = t
        /\ pc[t] = "ul_erase"
        /\ map[arg[t]].refCount = 0
        /\ pc[u] = "ll_lock"
        /\ arg[u] = arg[t]

UnloadPcs == {"ul_lock", "ul_find"} \cup TeardownPcs \cup {"ul_exit"}

\* what a step of unloadLibrary on the record of its path may do, given what the
\* record is before the step: call the teardown callback only on an intact registry
\* and an open handle and leave both so; destroy the registry only after the callback
\* and with the handle open; close the handle only after the registry is gone; remove
\* the record only after the handle is closed
C24_Order ==
    \A t \in Threads :
        (pc[t] \in UnloadPcs /\ pc'[t] # pc[t] /\ arg[t] \in DOMAIN map) =>
            LET p == arg[t]
                r == map[p]
            IN  /\ (p \in DOMAIN map' /\ calls'[p].uninit > calls[p].uninit) =>
                      /\ r.pFactory.alloc /\ isLoaded(r.pLibrary)
                      /\ map'[p].pFactory = r.pFactory
                      /\ map'[p].pLibrary = r.pLibrary
                      /\ r.pFactory.fmap # << >>
                /\ (p \in DOMAIN map' /\ r.pFactory.alloc /\ ~map'[p].pFactory.alloc) =>
                      /\ calls[p].uninit = (IF ExportsUninit(p) THEN 1 ELSE 0)
                      /\ isLoaded(r.pLibrary)
                      /\ isLoaded(map'[p].pLibrary)
                /\ (p \in DOMAIN map' /\ isLoaded(r.pLibrary)
                        /\ ~isLoaded(map'[p].pLibrary)) =>
                      ~r.pFactory.alloc
                /\ p \notin DOMAIN map' =>
                      /\ ~r.pFactory.alloc
                      /\ ~isLoaded(r.pLibrary)
                      /\ calls[p].uninit = (IF ExportsUninit(p) THEN 1 ELSE 0)

\* C24: in the unloadLibrary call that takes the count to zero the teardown callback,
\* if exported, runs while the registry is intact and the handle open; then the
\* registry is destroyed, then the OS handle closed and the handle object destroyed,
\* then the record removed from the map.
C24_UnloadOrdering == [][C24_Order]_vars

\* the teardown callback has run and the registry and the handle are still whole
C24_Witness ==
    \E t \in Threads :
        /\ pc[t] = "ul_delfactory"
        /\ calls[arg[t]].uninit = 1
        /\ map[arg[t]].pFactory.alloc
        /\ map[arg[t]].pFactory.fmap # << >>
        /\ isLoaded(map[arg[t]].pLibrary)

\* the creator the thread holds belongs to a record of the map whose registry is
\* allocated and whose handle is open
CreatorLive(t) ==
    /\ cre[t].lib \in DOMAIN map
    /\ map[cre[t].lib].pFactory.alloc
    /\ factory_has(map[cre[t].lib].pFactory, arg[t])
    /\ isLoaded(map[cre[t].lib].pLibrary)

\* C25: a thread inside getClass that is about to invoke the creator it looked up
\* never does so after unloadLibrary has destroyed the registry or closed the handle
\* of the creator's library (lookup and invocation being one critical section).
C25_NoInvocationAfterUnload ==
    \A t \in Threads : (pc[t] = "gc_create" /\ ~cre[t].null) => CreatorLive(t)

\* C27: a loadLibrary call that returns without raising an error leaves its path in the
\* map with a reference count of at least 1.
C27_NoSilentFailure ==
    \A t \in Threads :
        (pc[t] = "ll_exit" /\ exc[t] = NoException) =>
            /\ arg[t] \in DOMAIN map
            /\ map[arg[t]].refCount >= 1

\* C26: while a thread walks the loader from begin() to end(), the pair it got from
\* dereferencing the iterator never refers to a record that has been removed from the
\* map or to a registry that has been destroyed.
C26_IterationProtected ==
    \A t \in Threads :
        pc[t] = "it_next" =>
            /\ _pair[t].first \in DOMAIN map
            /\ map[_pair[t].first].pFactory.alloc
            /\ _pair[t].second = map[_pair[t].first].pFactory

\* C28: under fair scheduling every call of loadLibrary, unloadLibrary, getClass,
\* hasClass and isLibraryLoaded eventually returns or raises, that is, the thread is
\* back in the host with no lock held.
C28_EveryCallReturns ==
    \A t \in Threads : (pc[t] # "idle") ~> (pc[t] = "idle" /\ mutex # t)

====
